---------------------------- MODULE Spec2Model ----------------------------
(***************************************************************************)
(* A model of BallPivotingAlgorithm (src/bpa.py): the class-level face and *)
(* edge lists, the engine instances, seed discovery, the pivot loop with   *)
(* its fallback scan, and write_to_file.                                   *)
(*                                                                         *)
(* Point, Edge and Face are imported by bpa.py (point.py, edge.py,         *)
(* face.py) and are not part of the source at hand; their behaviour is     *)
(* taken from the design document and marked as such below.  Points are    *)
(* values (coordinate triples), Edge objects live in a heap and are named  *)
(* by their position in it, so that two Edge objects over the same         *)
(* endpoint pair are different objects with their own connection counts.   *)
(***************************************************************************)
EXTENDS Integers, Sequences, FiniteSets

\* ------------------------------------------------------------------ bounds

\* Longest point cloud drawn as an input.
MaxPts == 5
\* Largest explicit iteration cap drawn as an input (0 stands for "not given").
MaxIter == 3

\* ------------------------------------------------------------------ inputs

Engines == {1, 2}

\* The coordinates the input clouds are drawn from: four corners of the unit
\* cube, a fifth point in the z = 0 plane, and two repeated coordinates.
Base == << <<0, 0, 0>>, <<1, 0, 0>>, <<0, 1, 0>>, <<0, 0, 1>>, <<1, 1, 0>>,
           <<0, 0, 0>>, <<0, 1, 0>> >>

\* The k-th smallest element of a finite set of integers.
KthOf(S, k) == CHOOSE x \in S : Cardinality({y \in S : y < x}) = k - 1

\* The order-preserving subsequence of Base at the positions S.
CloudAt(S) == [k \in 1..Cardinality(S) |-> Base[KthOf(S, k)]]

\* Every point cloud of at most MaxPts points drawn from Base, the empty one
\* included.
Clouds == {CloudAt(S) : S \in {T \in SUBSET (1..Len(Base)) : Cardinality(T) <= MaxPts}}

\* Radii: a negative one, zero, and one that reaches the unit neighbours.
Radii == {-1, 0, 1}

\* The iterations argument of __init__; 0 is the falsy "not given".
IterArgs == 0..MaxIter

\* ---------------------------------------------------------------- geometry

NoPoint == <<>>
NoEdge == 0

Range(s) == {s[k] : k \in 1..Len(s)}

Sq(n) == n * n

Dist2(p, q) == Sq(p[1] - q[1]) + Sq(p[2] - q[2]) + Sq(p[3] - q[3])

\* Point.find_neighbouring_vertices_with_distance: the positions in the cloud
\* of the points other than p within the radius of p, in cloud order.
find_neighbours(p, cloud, r) ==
    SelectSeq([k \in 1..Len(cloud) |-> k],
              LAMBDA k : cloud[k] # p /\ r >= 0 /\ Dist2(cloud[k], p) <= Sq(r))

\* Point.get_closest_point: the nearest candidate, the first one on a tie.
\* Only defined on a non-empty candidate list.
get_closest_point(p, cloud, nb) ==
    LET best == CHOOSE k \in 1..Len(nb) :
                    /\ \A j \in 1..Len(nb) : Dist2(cloud[nb[k]], p) <= Dist2(cloud[nb[j]], p)
                    /\ \A j \in 1..(k - 1) : Dist2(cloud[nb[j]], p) > Dist2(cloud[nb[k]], p)
    IN  cloud[nb[best]]

Minus(a, b) == <<a[1] - b[1], a[2] - b[2], a[3] - b[3]>>

Dot(a, b) == a[1] * b[1] + a[2] * b[2] + a[3] * b[3]

CrossV(a, b) ==
    <<a[2] * b[3] - a[3] * b[2], a[3] * b[1] - a[1] * b[3], a[1] * b[2] - a[2] * b[1]>>

\* l < x * sqrt(s) for integers l, x and s >= 0, decided without the root.
LessRoot(l, x, s) ==
    IF l < 0
    THEN x >= 0 \/ l * l > x * x * s
    ELSE x > 0 /\ l * l < x * x * s

\* A ball of radius r rests on p1, p2 and p with no other point of the cloud
\* strictly inside it.  With u = p2 - p1, v = p - p1 and n = u x v, the
\* circumcentre is p1 + w / (2 |n|^2), the two ball centres lie at
\* +-sqrt(s) / (2 |n|^2) along n, where s = 4 r^2 |n|^2 - |u|^2 |v|^2 |u-v|^2
\* must not be negative (the circumradius is at most r), and q lies strictly
\* inside the ball on side sd iff |n|^2 |q-p1|^2 - (q-p1).w < sd ((q-p1).n) sqrt(s).
BallRests(p1, p2, p, cloud, r) ==
    LET u == Minus(p2, p1)
        v == Minus(p, p1)
        n == CrossV(u, v)
        n2 == Dot(n, n)
        s == 4 * Sq(r) * n2 - Dot(u, u) * Dot(v, v) * Dist2(p2, p)
        vn == CrossV(v, n)
        nu == CrossV(n, u)
        w == <<Dot(u, u) * vn[1] + Dot(v, v) * nu[1],
               Dot(u, u) * vn[2] + Dot(v, v) * nu[2],
               Dot(u, u) * vn[3] + Dot(v, v) * nu[3]>>
        Inside(q, sd) ==
            LET d == Minus(q, p1)
            IN  LessRoot(n2 * Dot(d, d) - Dot(d, w), sd * Dot(d, n), s)
    IN  /\ n2 # 0
        /\ s >= 0
        /\ \E sd \in {1, -1} : \A q \in Range(cloud) \ {p1, p2, p} : ~Inside(q, sd)

\* The points the pivot around (p1, p2) can stop at: not an endpoint, not
\* colinear with the endpoints, a ball of radius r resting on the three
\* points with no cloud point strictly inside, and no face over the same
\* three points yet.
Candidates(p1, p2, cloud, r, fs) ==
    {p \in Range(cloud) :
        /\ r > 0
        /\ p # p1 /\ p # p2
        /\ BallRests(p1, p2, p, cloud, r)
        /\ \A k \in 1..Len(fs) : Range(fs[k].points) # {p1, p2, p}}

\* Edge.find_third_point: the outcomes the pivot predicate can have on the
\* edge (p1, p2).  The choice among the candidates (smallest rotation angle)
\* is left open: any candidate may be the one returned; "no point found" is
\* returned when there is none.
find_third_point(p1, p2, cloud, r, fs) ==
    LET c == Candidates(p1, p2, cloud, r, fs)
    IN  IF c = {} THEN {NoPoint} ELSE c

\* ------------------------------------------------------------ Edge and Face

\* Edge(p1, p2): a new Edge object, no face referencing it yet.
Edge(p1, p2) == [p1 |-> p1, p2 |-> p2, connections |-> 0]

\* Edge.__eq__ / __hash__: the unordered endpoint pair.
SamePair(a, b) == {a.p1, a.p2} = {b.p1, b.p2}

\* Constructing a Face increments the connection count of each of the three
\* Edge objects it is given.
Connect(h, ids) ==
    [k \in 1..Len(h) |->
        IF k \in Range(ids) THEN [h[k] EXCEPT !.connections = @ + 1] ELSE h[k]]

\* The face record: its points, its Edge objects, its 0-based cloud indices.
\* owner is not a field of the program's Face: it records the engine whose
\* run() built the face.
Face(points, ids, idx, owner) ==
    [points |-> points, edges |-> ids, idx |-> idx, owner |-> owner]

\* Face.get_new_edge: the edges of the face whose connection count is below
\* 2, or none.  (The edge a face was pivoted from has count 2 when the face
\* is built, so it is never among them at that moment.)
get_new_edge(f, h) ==
    LET front == {id \in Range(f.edges) : h[id].connections < 2}
    IN  IF front = {} THEN {NoEdge} ELSE front


\* ------------------------------------------------------------------- state

VARIABLES
    faces,          \* BallPivotingAlgorithm.faces, the class-level list
    classEdges,     \* BallPivotingAlgorithm.edges, the class-level list
    heap,           \* every Edge object built so far; an Edge is named by its position
    hasOwn,         \* per engine: self.edges is an instance attribute (after line 119)
    ownEdges,       \* per engine: that instance attribute
    point_cloud,    \* per engine: self.point_cloud
    radius,         \* per engine: self.radius
    iterations,     \* per engine: self.iterations
    pc,             \* per engine: where run() stands
    edge,           \* per engine: run()'s local edge
    i,              \* per engine: the iterations of the main loop completed
    written,        \* per engine: what write_to_file wrote
    searched,       \* per engine: the neighbour search has been invoked
    closestOnEmpty, \* per engine: get_closest_point was invoked with no candidate
    failedIn,       \* per engine: the step of run() an exception escaped from
    noThird         \* per engine: a pivot of the main loop found no third point

vars == <<faces, classEdges, heap, hasOwn, ownEdges, point_cloud, radius,
          iterations, pc, edge, i, written, searched, closestOnEmpty, failedIn,
          noThird>>

\* The scan's two ways out that are not an edge.
QuitCode == -1
IndexErrorCode == -2

\* self.faces and self.edges as engine e sees them: the class attribute,
\* unless the instance has one of its own.
SelfFaces(e) == faces

SelfEdges(e) == IF hasOwn[e] THEN ownEdges[e] ELSE classEdges

\* list(set(edges)): one Edge object per unordered endpoint pair, the one
\* that was in the list first.
Dedup(ids, h) ==
    SelectSeq(ids, LAMBDA id :
        \A k \in 1..Len(ids) :
            (SamePair(h[ids[k]], h[id]) /\ ids[k] <= id) => ids[k] = id)

\* np.where(self.point_cloud == p)[0][0] taken as a 1-based position.
IndexOfOneBased(cloud, p) ==
    CHOOSE k \in 1..Len(cloud) :
        cloud[k] = p /\ \A j \in 1..(k - 1) : cloud[j] # p

\* np.where(self.point_cloud == p)[0][0]: the 0-based position of the first
\* point of the cloud equal to p.
IndexOf(cloud, p) ==
    (CHOOSE k \in 1..Len(cloud) :
        cloud[k] = p /\ \A j \in 1..(k - 1) : cloud[j] # p) - 1

\* run() keeping the edge it pivoted around instead of asking the new face
\* (line 188 left out; the first edge still comes from the seed).
KeepEdge(f, h, old) == IF old = NoEdge THEN get_new_edge(f, h) ELSE {old}

\* edge = face.get_new_edge() (lines 182, 188, 195).
NextEdge(f, h, old) == get_new_edge(f, h)

\* The while loop of lines 190-196, entered with edge == None at position k:
\* the edges it can leave with, QuitCode when it writes the file and quits,
\* IndexErrorCode when self.faces[k] is out of range.
RECURSIVE ScanFrom(_, _, _)
ScanFrom(fs, h, k) ==
    IF k > Len(fs) THEN {QuitCode}
    ELSE IF k = Len(fs) THEN {IndexErrorCode}
    ELSE LET c == NextEdge(fs[k + 1], h, NoEdge)
         IN  (c \ {NoEdge}) \cup (IF NoEdge \in c THEN ScanFrom(fs, h, k + 1) ELSE {})

\* Lines 188-196: the next edge after face f was appended.
SelectNext(f, fs, h, old) ==
    LET c == NextEdge(f, h, old)
    IN  (c \ {NoEdge}) \cup (IF NoEdge \in c THEN ScanFrom(fs, h, 0) ELSE {})

\* write_to_file: the vertices in cloud order, each face as its indices plus one.
WriteToFile(e, fs) ==
    [done |-> TRUE,
     vertices |-> point_cloud[e],
     faces |-> [k \in 1..Len(fs) |->
                  <<fs[k].idx[1] + 1, fs[k].idx[2] + 1, fs[k].idx[3] + 1>>]]

NotWritten == [done |-> FALSE, vertices |-> <<>>, faces |-> <<>>]

\* __init__: iterations defaults to the size of the cloud when not given.
Construct(cloud, r, it) ==
    [point_cloud |-> cloud, radius |-> r,
     iterations |-> IF it # 0 THEN it ELSE Len(cloud)]

InitCommon ==
    /\ faces = <<>>
    /\ classEdges = <<>>
    /\ heap = <<>>
    /\ hasOwn = [e \in Engines |-> FALSE]
    /\ ownEdges = [e \in Engines |-> <<>>]
    /\ edge = [e \in Engines |-> NoEdge]
    /\ i = [e \in Engines |-> 0]
    /\ written = [e \in Engines |-> NotWritten]
    /\ searched = [e \in Engines |-> FALSE]
    /\ closestOnEmpty = [e \in Engines |-> FALSE]
    /\ failedIn = [e \in Engines |-> "none"]
    /\ noThird = [e \in Engines |-> FALSE]

\* One engine is constructed (main): engine 2 does not exist.
Init ==
    /\ InitCommon
    /\ \E cloud \in Clouds, r \in Radii, it \in IterArgs :
         LET c == Construct(cloud, r, it)
         IN  /\ point_cloud = [e \in Engines |-> IF e = 1 THEN c.point_cloud ELSE <<>>]
             /\ radius = [e \in Engines |-> IF e = 1 THEN c.radius ELSE 0]
             /\ iterations = [e \in Engines |-> IF e = 1 THEN c.iterations ELSE 0]
    /\ pc = [e \in Engines |-> IF e = 1 THEN "ready" ELSE "absent"]

\* The clouds of three or four of the five distinct points of Base.
SmallClouds == {CloudAt(S) : S \in {T \in SUBSET (1..5) : Cardinality(T) \in {3, 4}}}

\* Two engines over different point clouds, both constructed.
InitTwo ==
    /\ InitCommon
    /\ \E c1 \in SmallClouds : \E c2 \in SmallClouds \ {c1} : \E it \in {1} :
         /\ point_cloud = [e \in Engines |-> IF e = 1 THEN c1 ELSE c2]
         /\ radius = [e \in Engines |-> 1]
         /\ iterations = [e \in Engines |-> it]
    /\ pc = [e \in Engines |-> "ready"]

\* self.edges.append(x) for each x of ids: on the instance attribute when
\* there is one, else on the class list.
AppendedClass(e, ids) == IF hasOwn[e] THEN classEdges ELSE classEdges \o ids

AppendedOwn(e, ids) == IF hasOwn[e] THEN ownEdges[e] \o ids ELSE ownEdges[e]

\* ----------------------------------------------------------------- actions

\* Lines 180-182: find_seed_triangle, the append of the seed and the first
\* get_new_edge.  What the step leaves behind, given the third point found.
SeedOutcome(e, third) ==
    LET cloud == point_cloud[e]
        nb == find_neighbours(cloud[1], cloud, radius[e])
        first == cloud[1]
        second == get_closest_point(first, cloud, nb)
        n == Len(heap)
        ids == <<n + 1, n + 2, n + 3>>
        built == heap \o <<Edge(first, second), Edge(second, third), Edge(third, first)>>
        f == Face(<<first, second, third>>, ids,
                  <<IndexOf(cloud, first), IndexOf(cloud, second), IndexOf(cloud, third)>>, e)
    IN  IF Len(cloud) = 0
        THEN \* line 80: self.point_cloud[0] raises
             [heap |-> heap, ids |-> <<>>, faces |-> faces, ok |-> FALSE,
              searched |-> FALSE, onEmpty |-> FALSE, next |-> {NoEdge}]
        ELSE IF Len(nb) = 0
        THEN \* line 84: get_closest_point on no candidate raises
             [heap |-> heap, ids |-> <<>>, faces |-> faces, ok |-> FALSE,
              searched |-> TRUE, onEmpty |-> TRUE, next |-> {NoEdge}]
        ELSE IF third = NoPoint
        THEN \* lines 86-97 build and register the edges; line 100 raises
             [heap |-> built, ids |-> ids, faces |-> faces, ok |-> FALSE,
              searched |-> TRUE, onEmpty |-> FALSE, next |-> {NoEdge}]
        ELSE [heap |-> Connect(built, ids), ids |-> ids, faces |-> Append(faces, f),
              ok |-> TRUE, searched |-> TRUE, onEmpty |-> FALSE,
              next |-> NextEdge(f, Connect(built, ids), NoEdge)]

\* The third points find_seed_triangle can get from the first edge.
SeedThirds(e) ==
    LET cloud == point_cloud[e]
    IN  IF Len(cloud) = 0 \/ Len(find_neighbours(cloud[1], cloud, radius[e])) = 0
        THEN {NoPoint}
        ELSE find_third_point(cloud[1],
                 get_closest_point(cloud[1], cloud, find_neighbours(cloud[1], cloud, radius[e])),
                 cloud, radius[e], SelfFaces(e))

FindSeed(e) ==
    /\ pc[e] = "ready"
    /\ \E third \in SeedThirds(e) :
         LET o == SeedOutcome(e, third)
         IN  /\ heap' = o.heap
             /\ faces' = o.faces
             /\ classEdges' = AppendedClass(e, o.ids)
             /\ ownEdges' = [ownEdges EXCEPT ![e] = AppendedOwn(e, o.ids)]
             /\ searched' = [searched EXCEPT ![e] = o.searched]
             /\ closestOnEmpty' = [closestOnEmpty EXCEPT ![e] = o.onEmpty]
             /\ pc' = [pc EXCEPT ![e] = IF o.ok THEN "loop" ELSE "raised"]
             /\ failedIn' = [failedIn EXCEPT ![e] = IF o.ok THEN "none" ELSE "seed"]
             /\ \E ne \in o.next : edge' = [edge EXCEPT ![e] = ne]
    /\ UNCHANGED <<hasOwn, point_cloud, radius, iterations, i, written, noThird>>

\* Lines 185-196: one iteration of the main loop, pivot_ball included.
PivotOutcome(e, third) ==
    LET cloud == point_cloud[e]
        eg == heap[edge[e]]
        n == Len(heap)
        ids == <<n + 1, n + 2>>
        built == heap \o <<Edge(eg.p1, third), Edge(eg.p2, third)>>
        fids == <<edge[e], n + 1, n + 2>>
        f == Face(<<eg.p1, eg.p2, third>>, fids,
                  <<IndexOf(cloud, eg.p1), IndexOf(cloud, eg.p2), IndexOf(cloud, third)>>, e)
    IN  [heap |-> IF third = NoPoint THEN built ELSE Connect(built, fids),
         ids |-> ids,
         own |-> Dedup(SelfEdges(e) \o ids, built),
         faces |-> IF third = NoPoint THEN faces ELSE Append(faces, f),
         next |-> IF third = NoPoint THEN {NoEdge}
                  ELSE SelectNext(f, Append(SelfFaces(e), f), Connect(built, fids), edge[e])]

PivotStep(e) ==
    /\ pc[e] = "loop"
    /\ i[e] < iterations[e]
    /\ LET eg == heap[edge[e]]
       IN  \E third \in find_third_point(eg.p1, eg.p2, point_cloud[e], radius[e], SelfFaces(e)) :
             LET o == PivotOutcome(e, third)
             IN  /\ heap' = o.heap
                 /\ classEdges' = AppendedClass(e, o.ids)
                 /\ ownEdges' = [ownEdges EXCEPT ![e] = o.own]
                 /\ hasOwn' = [hasOwn EXCEPT ![e] = TRUE]
                 /\ faces' = o.faces
                 /\ \E ne \in o.next :
                      /\ edge' = [edge EXCEPT ![e] =
                                    IF third = NoPoint THEN @
                                    ELSE IF ne < 0 THEN NoEdge ELSE ne]
                      /\ pc' = [pc EXCEPT ![e] =
                                  IF third = NoPoint \/ ne = IndexErrorCode THEN "raised"
                                  ELSE IF ne = QuitCode THEN "quit" ELSE "loop"]
                      /\ failedIn' = [failedIn EXCEPT ![e] =
                                        IF third = NoPoint THEN "pivot"
                                        ELSE IF ne = IndexErrorCode THEN "scan" ELSE @]
                      /\ written' = [written EXCEPT ![e] =
                                       IF third # NoPoint /\ ne = QuitCode
                                       THEN WriteToFile(e, faces') ELSE @]
                 /\ i' = [i EXCEPT ![e] = IF third = NoPoint THEN @ ELSE @ + 1]
                 /\ noThird' = [noThird EXCEPT ![e] = (third = NoPoint)]
    /\ UNCHANGED <<point_cloud, radius, iterations, searched, closestOnEmpty>>

\* Lines 198-200: the loop is over; the mesh is written and run() returns.
Finish(e) ==
    /\ pc[e] = "loop"
    /\ i[e] = iterations[e]
    /\ written' = [written EXCEPT ![e] = WriteToFile(e, SelfFaces(e))]
    /\ pc' = [pc EXCEPT ![e] = "done"]
    /\ UNCHANGED <<faces, classEdges, heap, hasOwn, ownEdges, point_cloud, radius,
                   iterations, edge, i, searched, closestOnEmpty, failedIn, noThird>>

Next == \E e \in Engines : FindSeed(e) \/ PivotStep(e) \/ Finish(e)

Spec == Init /\ [][Next]_vars

SpecTwo == InitTwo /\ [][Next]_vars


\* ------------------------------------------------------------------ claims

Constructed(e) == pc[e] # "absent"

Ended(e) == pc[e] \in {"done", "quit"}

\* The faces of fs that use the unordered endpoint pair of Edge object x.
FacesOnPair(fs, x) ==
    {k \in 1..Len(fs) : {x.p1, x.p2} \subseteq Range(fs[k].points)}

\* Some Edge object has a missing endpoint.
MissingPointEdge == \E id \in 1..Len(heap) : heap[id].p1 = NoPoint \/ heap[id].p2 = NoPoint

\* Background to C1: the while loop of lines 192-196 is never entered.  The
\* face pivot_ball returns always carries two Edge objects built by that call,
\* each with connection count 1, so its get_new_edge() never returns None.
ScanNeverEntered ==
    \A e \in Engines : failedIn[e] # "scan" /\ pc[e] # "quit"

\* C2: with an iteration cap of 1, a run that ends has exactly one face in
\* the face list.
CapOneLeavesSeedOnly ==
    \A e \in Engines :
        (iterations[e] = 1 /\ pc[e] = "done") => Len(SelfFaces(e)) = 1

\* C3: the faces reference one Edge object per unordered endpoint pair, and
\* its connection count is the number of faces that use the pair.
OneEdgePerPair ==
    \A k \in 1..Len(faces) : \A a \in Range(faces[k].edges) :
        /\ \A j \in 1..Len(faces) : \A b \in Range(faces[j].edges) :
              SamePair(heap[a], heap[b]) => a = b
        /\ heap[a].connections = Cardinality(FacesOnPair(faces, heap[a]))

\* C4: at the end of a run no unordered endpoint pair of the edge set is
\* used by more than two faces of the face list.
ConnectionBound ==
    \A e \in Engines :
        Ended(e) =>
            \A id \in Range(SelfEdges(e)) :
                Cardinality(FacesOnPair(SelfFaces(e), heap[id])) <= 2

\* C5: a pivot of the main loop that finds no third point does not abort the
\* run and adds no edge.
PivotExhaustedRecovered ==
    \A e \in Engines :
        noThird[e] => (pc[e] # "raised" /\ ~MissingPointEdge)

\* C6: when seed discovery fails, the closest-point selection was not invoked
\* on an empty candidate list, no Edge was built with a missing point and no
\* face or edge was registered.
SeedFailureClean ==
    \A e \in Engines :
        failedIn[e] = "seed" =>
            /\ ~closestOnEmpty[e]
            /\ ~MissingPointEdge
            /\ SelfFaces(e) = <<>> /\ SelfEdges(e) = <<>>

InstanceOwned ==
    \A e \in Engines :
        /\ \A k \in 1..Len(SelfFaces(e)) : SelfFaces(e)[k].owner = e
        /\ (pc[e] = "ready" => SelfFaces(e) = <<>> /\ SelfEdges(e) = <<>>)

\* C9: on an empty point cloud or a non-positive radius the run is rejected
\* before anything starts: no neighbour search, no exception out of seed
\* discovery or a pivot, no face and no edge.
InputRejected ==
    \A e \in Engines :
        (Constructed(e) /\ (Len(point_cloud[e]) = 0 \/ radius[e] <= 0)) =>
            /\ ~searched[e]
            /\ failedIn[e] = "none"
            /\ SelfFaces(e) = <<>> /\ SelfEdges(e) = <<>>

\* C10: whenever pivot_ball(edge) is about to be called, edge is not None, is
\* an edge of a face of the face list, and has a connection count below 2.
PivotGetsFrontEdge ==
    \A e \in Engines :
        (pc[e] = "loop" /\ i[e] < iterations[e]) =>
            /\ edge[e] # NoEdge
            /\ \E k \in 1..Len(SelfFaces(e)) : edge[e] \in Range(SelfFaces(e)[k].edges)
            /\ heap[edge[e]].connections < 2

\* pivot_ball is about to be called on an edge taken from a pivoted face.
PivotGetsFrontEdgeWitness ==
    /\ pc[1] = "loop" /\ i[1] >= 1 /\ i[1] < iterations[1]
    /\ edge[1] \in Range(faces[Len(faces)].edges)
    /\ Len(faces) >= 2

=============================================================================
